---------------------------- MODULE Spec2Model ----------------------------
(***************************************************************************)
(* Event-thread engines of gaudium.                                        *)
(*                                                                         *)
(*   platform : gaudium-platform-windows/src/reactor.rs  (Reaction<Poll>,   *)
(*              Flushed / Resumed phases, push_back / pop_front queue)     *)
(*   legacy   : src/backend/windows/reactor.rs           (Poll returned by  *)
(*              react, QueueExhausted, push_front / pop_back queue)        *)
(*                                                                         *)
(* The reactor (user code) and the Win32 message queue are the inputs: the *)
(* result of every Reactor::react / Reactor::poll call and every posted    *)
(* native message is chosen nondeterministically from small sets.          *)
(*                                                                         *)
(* The library objects of gaudium-core (the input snapshots of             *)
(* framework/input and the Reactor::poll implementations) are exercised    *)
(* on their own by LibSpec; ThreadSpec adds a second thread to a platform  *)
(* run.                                                                    *)
(***************************************************************************)
EXTENDS Integers, Sequences, FiniteSets, TLC

\* ------------------------------------------------------------------ bounds
\* Number of native messages the environment posts during one run.
MaxNative == 2
\* Largest number of events one WM_INPUT mouse record decodes into.
MaxBatch == 3
\* Last instant of the discrete clock.
MaxTime == 1

VARIABLES
    engine,         \* "platform" or "legacy": which EventThread runs
    pc,             \* position of the event thread in run()
    registered,     \* EVENT_THREAD thread-local holds Some(engine)
    reaction,       \* platform EventThread.reaction : Reaction<Poll>
    poll,           \* legacy EventThread.poll : Poll
    queue,          \* EventThread.queue : VecDeque<Event>
    message,        \* the MSG buffer last written by Peek/GetMessage
    resumption,     \* platform: the Resumption computed by the match
    native,         \* posted native messages not yet retrieved
    posted,         \* number of native messages posted so far
    quitPosted,     \* PostQuitMessage has been called, WM_QUIT not yet read
    quitCode,       \* the exit code given to PostQuitMessage
    now,            \* Instant::now()
    nextSeq,        \* number of events handed to the enqueue hook so far
    \* ---- observations of the run (history)
    lastEvent,      \* last event passed to Reactor::react
    phase,          \* last of Flushed / Resumed passed to Reactor::react
    polls,          \* Reactor::poll queries since the last Flushed (capped)
    lastResult,     \* what the last Reactor::react / Reactor::poll returned
    reacts,         \* parity of the number of Reactor::react invocations
    deliveredSeq,   \* sequence number of the last queued event delivered
    sawAbort,       \* some Reactor::react / Reactor::poll returned Abort
    abortCalls,     \* number of Reactor::abort invocations
    abortDone,      \* Reactor::abort has returned
    callAfterAbort, \* Reactor::react/poll invoked after Reactor::abort
    hookResult,     \* result of the last react/enqueue hook call
    deadline,       \* legacy: instant at which the last Timeout(d) expires
    panicked,       \* a panic was caught in the window procedure
    exitCode,       \* process exit code (-1 while the process lives)
    foreign,        \* what hook calls made on other threads came to
    hwnd,           \* the native window of the Window: alive or destroyed
    dropped,        \* the Window object has been dropped
    \* ---- the library objects exercised on their own
    subject,        \* what this run exercises: the engine or one object
    mouse,          \* a MouseSnapshot { new, old }
    keyboard,       \* a KeyboardSnapshot { new, old }
    call,           \* the last library function called, with its result
    \* ---- observations of the event stream a snapshot has seen (history)
    held,           \* elements whose latest event said Pressed
    heldAtSnap,     \* held, as it was at the latest snapshot() call
    snaps,          \* snapshot() calls since the latest event (capped)
    scenario,       \* how far the run follows the end-to-end scenario
    toggled         \* elements pressed or released since the last snapshot()

vars == <<engine, pc, registered, reaction, poll, queue, message,
          resumption, native, posted, quitPosted, quitCode, now, nextSeq,
          lastEvent, phase, polls, lastResult, reacts, deliveredSeq,
          sawAbort, abortCalls,
          abortDone,
          callAfterAbort, hookResult, deadline, panicked, exitCode,
          foreign, hwnd, dropped, subject, mouse, keyboard, call, held,
          heldAtSnap, snaps,
          scenario, toggled>>

\* --------------------------------------------------------- control values
Unit == <<>>

\* gaudium-core Poll
Ready == <<"Ready">>
Wait == <<"Wait">>
WaitUntil(t) == <<"WaitUntil", t>>

\* gaudium-core Reaction<T>
Continue(v) == <<"Continue", v>>
Abort == <<"Abort">>

\* legacy Poll (Ready and Wait as above)
Timeout(d) == <<"Timeout", d>>
PollAbort == <<"Abort">>

\* Default for Poll (core): Ready.   Default for Reaction<T>: Continue(default)
CorePollDefault == Ready
ReactionDefault == Continue(CorePollDefault)
\* Default for Poll (legacy): Wait
LegacyPollDefault == Wait

\* results a reactor may return
ReactResults == {Continue(Unit), Abort}
PollResults == {Continue(Ready), Continue(Wait), Abort}
                   \cup {Continue(WaitUntil(t)) : t \in 0..MaxTime}
LegacyReactResults == {Ready, Wait, Timeout(1), PollAbort}

\* ------------------------------------------------------------------ events
Ev(kind, res, origin, seq) ==
    [kind |-> kind, res |-> res, origin |-> origin, seq |-> seq]
NoEvent == Ev("None", "None", 0, 0)
Flushed == Ev("Flushed", "None", 0, 0)
Resumed(r) == Ev("Resumed", r, 0, 0)
QueueExhausted == Ev("QueueExhausted", "None", 0, 0)
\* Event::Window{Closed(Requested)} produced by native message number id
ClosedRequested(id) == Ev("Closed", "None", id, 0)
\* Event::Window{Closed(Committed)} produced by native message number id
ClosedCommitted(id) == Ev("ClosedCommitted", "None", id, 0)
\* the k-th event ever enqueued, decoded from native message number id
MouseInput(id, k) == Ev("Input", "None", id, k)

\* ---------------------------------------------------------- native messages
\* (id numbers the posted messages in posting order)
Msg(kind, wParam, id) == [message |-> kind, wParam |-> wParam, id |-> id]
WM_NULL == Msg("WM_NULL", 0, 0)
WM_QUIT(code) == Msg("WM_QUIT", code, 0)
\* the registered message that Drop for Window posts
WM_DROP == Msg("WM_DROP", 0, 0)
\* the fields of winuser::MSG the engines read
MSG(m) == [message |-> m.message, wParam |-> m.wParam]
\* exit codes given to PostQuitMessage by code other than the engine
ExternalQuitCodes == {2}

IsQuit(m) == m.message = "WM_QUIT"

\* What PeekMessageW / GetMessageW retrieve next: posted messages first,
\* WM_QUIT only once the posted queue is empty; WM_NULL stands for
\* "nothing to retrieve" (PeekMessageW returns 0, GetMessageW blocks).
NextMessage ==
    IF native # <<>> THEN Head(native)
    ELSE IF quitPosted THEN WM_QUIT(quitCode)
    ELSE WM_NULL

NativeEmpty == NextMessage = WM_NULL

Platform == engine = "platform"
Legacy == engine = "legacy"
Terminal == {"exited", "joined"}


\* ------------------------------------------------------- variable groups
\* everything a call into the reactor may change
reactVars == <<reaction, poll, deadline, quitPosted, quitCode, lastEvent,
               phase, polls,
               lastResult, reacts, deliveredSeq, sawAbort, callAfterAbort>>
\* everything the window procedure decides
procVars == <<reactVars, queue, nextSeq, hookResult, panicked, exitCode,
              hwnd>>
envVars == <<native, posted, now>>
\* the library objects: no step of an engine touches them
libVars == <<subject, mouse, keyboard, call, held, heldAtSnap, snaps,
             scenario, toggled>>
fixedVars == <<engine, foreign, dropped, libVars>>

\* ------------------------------------------------------------ the reactor
\* Bookkeeping of one Reactor::react / Reactor::poll invocation.
ReactorCalled(ev, r) ==
    /\ lastEvent' = ev
    /\ phase' = IF ev.kind \in {"Flushed", "Resumed"} THEN ev.kind ELSE phase
    /\ polls' = IF ev.kind = "Flushed" THEN 0 ELSE polls
    /\ lastResult' = r
    /\ reacts' = 1 - reacts
    /\ deliveredSeq' = IF ev.seq > 0 THEN ev.seq ELSE deliveredSeq
    /\ sawAbort' = (sawAbort \/ r = Abort)
    /\ callAfterAbort' = (callAfterAbort \/ abortCalls > 0)

\* ------------------------------------------- platform EventThread (new API)
\* React::react: only overwrite the reaction if an Abort was emitted.
Platform_react(cur, r) == IF r = Abort THEN Abort ELSE cur

\* (mutant) poll always stores what the reactor returned
Platform_poll_Overwrite(cur, r) == r

\* EventThread::poll: only overwrite the reaction if it is not Abort.
Platform_poll(cur, r) == IF cur[1] = "Continue" THEN r ELSE cur

\* (mutant) the platform queue pushes at the end it pops from
Platform_enqueue_Front(q, e) == <<e>> \o q

\* React::enqueue: queue.push_back(event)
Platform_enqueue(q, e) == Append(q, e)

\* queue.pop_front() on a non-empty queue
Platform_pop(q) == [event |-> Head(q), rest |-> Tail(q)]

PlatformReact(ev, r) ==
    /\ ReactorCalled(ev, r)
    /\ reaction' = Platform_react(reaction, r)
    /\ UNCHANGED <<poll, deadline, quitPosted, quitCode>>

\* --------------------------------------------- legacy EventThread (old API)
\* (mutant) no quit message is posted on Poll::Abort
Legacy_postsQuit_Never(r) == FALSE

\* PostQuitMessage(0) is called exactly when react returned Poll::Abort.
Legacy_postsQuit(r) == r = PollAbort

\* (mutant) the legacy queue pushes at the end it pops from
Legacy_enqueue_Back(q, e) == Append(q, e)

\* React::enqueue: queue.push_front(event)
Legacy_enqueue(q, e) == <<e>> \o q

\* queue.pop_back() on a non-empty queue
Legacy_pop(q) == [event |-> q[Len(q)], rest |-> SubSeq(q, 1, Len(q) - 1)]

LegacyReact(ev, r) ==
    /\ ReactorCalled(ev, r)
    /\ poll' = r
    /\ quitPosted' = (quitPosted \/ Legacy_postsQuit(r))
    /\ quitCode' = IF Legacy_postsQuit(r) THEN 0 ELSE quitCode
    /\ deadline' = IF r[1] = "Timeout" THEN now + r[2] ELSE -1
    /\ UNCHANGED reaction

\* ------------------------------------------------- the thread-local hooks
EventThreadReact(ev, r) ==
    IF Platform THEN PlatformReact(ev, r) ELSE LegacyReact(ev, r)

EventThreadEnqueue(q, e) ==
    IF Platform THEN Platform_enqueue(q, e) ELSE Legacy_enqueue(q, e)

RECURSIVE EnqueueAll(_, _)
EnqueueAll(q, evs) ==
    IF evs = <<>> THEN q
    ELSE EnqueueAll(EventThreadEnqueue(q, Head(evs)), Tail(evs))

\* (mutant) the hooks use the engine pointer without looking at the slot
HookTarget_Always(slot) == TRUE

\* thread.get(): Some(engine) exactly while the slot is set
HookTarget(slot) == slot

\* Result<T, ()>, and what hookResult holds when no hook call returned
Ok(v) == <<"Ok", v>>
Err == <<"Err">>
NoResult == <<"None">>
Unwound == <<"Panic">>

\* threads of the process: the one that runs the event loop, and another
EventThreadId == "event"
OtherThreadId == "other"

\* (mutant) the slot is one static shared by all threads
EVENT_THREAD_Static(t) == registered

\* thread_local! EVENT_THREAD, as seen by thread t: only the thread that
\* runs an event loop ever sets its slot
EVENT_THREAD(t) == IF t = EventThreadId THEN registered ELSE FALSE

\* pub unsafe fn react(event) -> Result<Reaction, ()>, called on a thread
\* whose slot is slot
HookReactOn(slot, ev, r) ==
    IF HookTarget(slot)
    THEN EventThreadReact(ev, r) /\ hookResult' = Ok(r)
    ELSE UNCHANGED reactVars /\ hookResult' = Err

\* react called on the event thread
HookReact(ev, r) == HookReactOn(EVENT_THREAD(EventThreadId), ev, r)

\* pub unsafe fn enqueue(events) -> Result<(), ()>, called on a thread
\* whose slot is slot
HookEnqueueOn(slot, evs) ==
    /\ UNCHANGED reactVars
    /\ IF HookTarget(slot)
       THEN /\ queue' = EnqueueAll(queue, evs)
            /\ nextSeq' = nextSeq + Len(evs)
            /\ hookResult' = Ok(Unit)
       ELSE /\ UNCHANGED <<queue, nextSeq>>
            /\ hookResult' = Err

\* enqueue called on the event thread
HookEnqueue(evs) == HookEnqueueOn(EVENT_THREAD(EventThreadId), evs)

\* the reactor panics instead of returning
Panics == <<"Panics">>

\* results a react call made by the hook may have with the running engine
HookOutcomes ==
    (IF Platform THEN ReactResults ELSE LegacyReactResults) \cup {Panics}

\* exit_process(code): ends the process with the given exit code
exit_process(code) == code

\* (mutant) a panic of the reactor is swallowed: the window procedure
\* returns to the dispatcher and the loop goes on
procedure_PanicReturns(m, out, nextpc) ==
    IF m.message = "WM_CLOSE"
    THEN IF out = Panics /\ HookTarget(registered)
         THEN /\ ReactorCalled(ClosedRequested(m.id), out)
              /\ hookResult' = Unwound
              /\ panicked' = TRUE
              /\ pc' = nextpc
              /\ UNCHANGED <<reaction, poll, deadline, quitPosted, quitCode,
                             queue, nextSeq, exitCode, hwnd>>
         ELSE /\ out # Panics
              /\ HookReact(ClosedRequested(m.id), out)
              /\ pc' = nextpc
              /\ UNCHANGED <<queue, nextSeq, panicked, exitCode, hwnd>>
    ELSE /\ \E n \in 0..MaxBatch :
               HookEnqueue([k \in 1..n |-> MouseInput(m.id, nextSeq + k)])
         /\ pc' = nextpc
         /\ UNCHANGED <<panicked, exitCode, hwnd>>

\* extern "system" fn procedure: the subclass window procedure, called by
\* DispatchMessageW for message m; out is what the reactor does if called.
\* Sets procVars and pc (nextpc unless the process is killed).
procedure(m, out, nextpc) ==
    IF m.message = "WM_CLOSE"
    THEN IF out = Panics /\ HookTarget(registered)
         THEN \* catch_unwind => Err(_): all bets are off, kill the process
              /\ ReactorCalled(ClosedRequested(m.id), out)
              /\ hookResult' = Unwound
              /\ panicked' = TRUE
              /\ exitCode' = exit_process(1)
              /\ UNCHANGED hwnd
              /\ pc' = "exited"
              /\ UNCHANGED <<reaction, poll, deadline, quitPosted, quitCode,
                             queue, nextSeq>>
         ELSE /\ out # Panics
              /\ HookReact(ClosedRequested(m.id), out)
              /\ pc' = nextpc
              /\ UNCHANGED <<queue, nextSeq, panicked, exitCode, hwnd>>
    ELSE IF m.message = "WM_DROP"
    THEN \* DestroyWindow(window): the window is destroyed and WM_DESTROY is
         \* sent to this procedure, which reacts Closed(Committed)
         /\ hwnd' = "destroyed"
         /\ IF out = Panics /\ HookTarget(registered)
            THEN /\ ReactorCalled(ClosedCommitted(m.id), out)
                 /\ hookResult' = Unwound
                 /\ panicked' = TRUE
                 /\ exitCode' = exit_process(1)
                 /\ pc' = "exited"
                 /\ UNCHANGED <<reaction, poll, deadline, quitPosted,
                                quitCode, queue, nextSeq>>
            ELSE /\ out # Panics
                 /\ HookReact(ClosedCommitted(m.id), out)
                 /\ pc' = nextpc
                 /\ UNCHANGED <<queue, nextSeq, panicked, exitCode>>
    ELSE \* WM_INPUT, RIM_TYPEMOUSE: mouse::parse_raw_input decodes the
         \* record into n events, which are enqueued
         /\ \E n \in 0..MaxBatch :
               HookEnqueue([k \in 1..n |-> MouseInput(m.id, nextSeq + k)])
         /\ pc' = nextpc
         /\ UNCHANGED <<panicked, exitCode, hwnd>>


\* ============================================================ the library
\* Option<T>
None == <<"None">>
Some(v) == <<"Some", v>>

\* ------------------------------------------------------ Reactor::poll
\* The implementations of Reactor::poll the library provides: the default
\* body of the trait function, the one of closures (impl Reactor for F) and
\* the one of StatefulReactor.
PollImpls == {"default", "closure", "stateful"}

\* Reactor::poll as implemented by impl
Reactor_poll(impl) ==
    IF impl = "default" THEN ReactionDefault    \* Default::default()
    ELSE Continue(Wait)                         \* Poll::Wait.into()

\* a call of function fn of the library object obj with argument arg,
\* which returned out
Call(fn, obj, arg, out) == [fn |-> fn, impl |-> obj, arg |-> arg, out |-> out]
NoCall == Call("none", "none", None, None)

\* ------------------------------------------------------------ input events
Pressed == "Pressed"
Released == "Released"
ElementState == {Pressed, Released}

\* enum MouseButton (of Other(u8) only Other(0))
MouseButton == {"Left", "Right", "Other0"}
\* enum KeyCode {}: there is no key code value
KeyCode == {}

\* coordinates and motions used as inputs
Coordinates == {0, 5}
Motions == {<<5, 5>>}

MouseButtonChanged(b, st) ==
    [kind |-> "MouseButtonChanged", button |-> b, state |-> st]
MouseMoved(abs, rel) ==
    [kind |-> "MouseMoved", absolute |-> abs, relative |-> rel]
KeyboardKeyChanged(kc, st) ==
    [kind |-> "KeyboardKeyChanged", keycode |-> kc, state |-> st]
\* an event of any other kind (wheel, controller, connection, window,
\* application)
OtherEvent(kind) == [kind |-> kind]

MouseMovements ==
    {MouseMoved(abs, rel) :
        abs \in {None} \cup {Some(<<x, y>>) : x, y \in Coordinates},
        rel \in {None} \cup {Some(m) : m \in Motions}}

\* the events a snapshot is given
InputEvents ==
    {MouseButtonChanged(b, st) : b \in MouseButton, st \in ElementState}
    \cup MouseMovements
    \cup {KeyboardKeyChanged(kc, st) :
            kc \in {None} \cup {Some(k) : k \in KeyCode},
            st \in ElementState}
    \cup {OtherEvent(k) : k \in {"MouseWheelRotated", "Disconnected",
                                  "Connected", "GameControllerButtonChanged",
                                  "WindowActivated", "QueueExhausted"}}

\* ------------------------------------------------------------- state.rs
\* the types that implement State, with the values used of each
StateTypes == {"bool", "ElementState", "pair"}
StateValues(ty) ==
    IF ty = "bool" THEN {TRUE, FALSE}
    ELSE IF ty = "ElementState" THEN ElementState
    ELSE {<<x, y>> : x, y \in Coordinates}

\* (mutant) a transition yields the state that was left
State_transition_Old(new, old) == IF new = old THEN None ELSE Some(old)

\* State::transition (default body; no State type overrides it)
State_transition(new, old) == IF new = old THEN None ELSE Some(new)

\* (mutant) every listed element is reported as Pressed
CompositeState_state_Pressed(raw, element) == Pressed

\* CompositeState::state for a HashSet-backed state
CompositeState_state(raw, element) ==
    IF element \in raw THEN Pressed ELSE Released

\* (mutant) only the elements that new has and old has not
symmetric_difference_NewOnly(a, b) == a \ b

\* HashSet::symmetric_difference, as a set
symmetric_difference(a, b) == (a \ b) \cup (b \ a)

\* every order in which the elements of the set S can be iterated
RECURSIVE Orderings(_)
Orderings(S) ==
    IF S = {} THEN {<<>>}
    ELSE UNION {{<<e>> \o t : t \in Orderings(S \ {e})} : e \in S}

\* SnapshotDifference::difference (blanket impl): the Vec collected from
\* the symmetric difference of the raw new and old sets, each element
\* paired with its state in new.  The iteration order of a HashSet is not
\* determined, so this is the set of the Vecs that may be returned.
SnapshotDifference_difference(new, old) ==
    {[i \in DOMAIN o |-> <<o[i], CompositeState_state(new, o[i])>>] :
        o \in Orderings(symmetric_difference(new, old))}

\* SnapshotTransition::transition for a HashSet-backed element
SnapshotTransition_transition(new, old, element) ==
    State_transition(CompositeState_state(new, element),
                     CompositeState_state(old, element))

\* ------------------------------------------------------------- mouse.rs
MouseState_new == [buttons |-> {}, position |-> <<0, 0>>, proximity |-> FALSE]
MouseSnapshot_new == [new |-> MouseState_new, old |-> MouseState_new]

\* (mutant) snapshot copies the pressed buttons only
MouseSnapshot_snapshot_ButtonsOnly(s) ==
    [s EXCEPT !.old.buttons = s.new.buttons]

\* (mutant) snapshot copies in the other direction
MouseSnapshot_snapshot_Reversed(s) == [s EXCEPT !.new = s.old]

\* Snapshot::snapshot for MouseSnapshot: self.old = self.new.clone()
MouseSnapshot_snapshot(s) == [s EXCEPT !.old = s.new]

\* (mutant) the two arms of the button match are exchanged
MouseSnapshot_react_Swapped(s, ev) ==
    IF ev.kind = "MouseButtonChanged"
    THEN IF ev.state = Pressed
         THEN [s EXCEPT !.new.buttons = @ \ {ev.button}]
         ELSE [s EXCEPT !.new.buttons = @ \cup {ev.button}]
    ELSE IF ev.kind = "MouseMoved" /\ ev.absolute # None
    THEN [s EXCEPT !.new.position = ev.absolute[2]]
    ELSE s

\* (mutant) a movement to an absolute position brings the pointer near
MouseSnapshot_react_Near(s, ev) ==
    IF ev.kind = "MouseButtonChanged"
    THEN IF ev.state = Pressed
         THEN [s EXCEPT !.new.buttons = @ \cup {ev.button}]
         ELSE [s EXCEPT !.new.buttons = @ \ {ev.button}]
    ELSE IF ev.kind = "MouseMoved" /\ ev.absolute # None
    THEN [s EXCEPT !.new.position = ev.absolute[2], !.new.proximity = TRUE]
    ELSE s

\* (mutant) a movement without an absolute position moves by its relative one
MouseSnapshot_react_Relative(s, ev) ==
    IF ev.kind = "MouseButtonChanged"
    THEN IF ev.state = Pressed
         THEN [s EXCEPT !.new.buttons = @ \cup {ev.button}]
         ELSE [s EXCEPT !.new.buttons = @ \ {ev.button}]
    ELSE IF ev.kind = "MouseMoved" /\ ev.absolute # None
    THEN [s EXCEPT !.new.position = ev.absolute[2]]
    ELSE IF ev.kind = "MouseMoved" /\ ev.relative # None
    THEN [s EXCEPT !.new.position = ev.relative[2]]
    ELSE s

\* React::react for MouseSnapshot
MouseSnapshot_react(s, ev) ==
    IF ev.kind = "MouseButtonChanged"
    THEN IF ev.state = Pressed
         THEN [s EXCEPT !.new.buttons = @ \cup {ev.button}]
         ELSE [s EXCEPT !.new.buttons = @ \ {ev.button}]
    ELSE IF ev.kind = "MouseMoved" /\ ev.absolute # None
    THEN [s EXCEPT !.new.position = ev.absolute[2]]
    ELSE s

\* SnapshotDifference<P, MousePosition>::difference
MousePosition_difference(s) == None

\* SnapshotDifference<P, MouseProximity>::difference
MouseProximity_difference(s) ==
    LET t == State_transition(s.new.proximity, s.old.proximity)
    IN IF t = None THEN None ELSE Some(<<"MouseProximity", t[2]>>)

\* ----------------------------------------------------------- keyboard.rs
KeyboardState_new == [keys |-> {}]
KeyboardSnapshot_new == [new |-> KeyboardState_new, old |-> KeyboardState_new]

\* Snapshot::snapshot for KeyboardSnapshot: self.old = self.new.clone()
KeyboardSnapshot_snapshot(s) == [s EXCEPT !.old = s.new]

\* React::react for KeyboardSnapshot
KeyboardSnapshot_react(s, ev) ==
    IF ev.kind = "KeyboardKeyChanged" /\ ev.keycode # None
    THEN IF ev.state = Pressed
         THEN [s EXCEPT !.new.keys = @ \cup {ev.keycode[2]}]
         ELSE [s EXCEPT !.new.keys = @ \ {ev.keycode[2]}]
    ELSE s

\* ------------------------------------------------- conversions (reactor.rs)
\* Result::Err(e), with the errors e used
Errors == {<<"Err", "io">>, <<"Err", "parse">>}

\* the reactions and the legacy poll modes that are converted
Reactions == ReactResults \cup PollResults
Payloads == {Unit, Ready, Wait}
\* the closures given to map
Closures == [Payloads -> Payloads]

\* Reaction::map
Reaction_map(self, f) ==
    IF self[1] = "Continue" THEN Continue(f[self[2]]) ELSE Abort

\* impl From<Option<Reaction<T>>> for Reaction<T>
Reaction_from_Option(option) ==
    IF option # None THEN option[2] ELSE Abort

\* (mutant) an error is swallowed and the loop continues
Reaction_from_Result_Swallow(result) ==
    IF result[1] = "Ok" THEN result[2] ELSE Continue(Unit)

\* impl From<Result<Reaction<T>, E>> for Reaction<T>
Reaction_from_Result(result) ==
    IF result[1] = "Ok" THEN result[2] ELSE Abort

\* legacy: impl From<Option<Poll>> for Poll
Poll_from_Option(option) ==
    IF option # None THEN option[2] ELSE PollAbort

\* legacy: impl From<Result<Poll, E>> for Poll
Poll_from_Result(result) ==
    IF result[1] = "Ok" THEN result[2] ELSE PollAbort

\* ---------------------------------------------------------------- event.rs
\* handles of windows and devices (opaque, compared by value)
WindowHandle == {1, 2}
DeviceHandle == {1, 2}

\* enum Event: Application { event }, Input { device, window, event },
\* Window { window, event }; the window of an Input event is an Option
Event_Application(e) == [category |-> "Application", event |-> e]
Event_Input(d, w, e) ==
    [category |-> "Input", device |-> d, window |-> w, event |-> e]
Event_Window(w, e) == [category |-> "Window", window |-> w, event |-> e]

Events ==
    {Event_Application(e) : e \in {"QueueExhausted", "TimeoutExpired"}}
    \cup {Event_Input(d, w, e) :
             d \in DeviceHandle,
             w \in {None} \cup {Some(h) : h \in WindowHandle},
             e \in {"MouseMoved", "Disconnected"}}
    \cup {Event_Window(w, e) :
             w \in WindowHandle, e \in {"Activated", "Resized"}}

\* (mutant) an input event that names no window is filtered out
Event_into_window_event_Strict(self, window) ==
    LET target == Some(window)
        found == IF self.category = "Input" THEN self.window
                 ELSE IF self.category = "Window" THEN Some(self.window)
                 ELSE None
    IN IF found = target THEN Some(self) ELSE None

\* (mutant) a window event passes for every window
Event_into_window_event_AnyWindow(self, window) ==
    LET target == Some(window)
        found == IF self.category = "Input"
                 THEN IF self.window # None THEN self.window ELSE target
                 ELSE IF self.category = "Window" THEN target
                 ELSE None
    IN IF found = target THEN Some(self) ELSE None

\* Event::into_window_event
Event_into_window_event(self, window) ==
    LET target == Some(window)
        found == IF self.category = "Input"
                 THEN IF self.window # None THEN self.window ELSE target
                 ELSE IF self.category = "Window" THEN Some(self.window)
                 ELSE None
    IN IF found = target THEN Some(self) ELSE None

\* (mutant) every input event passes, whatever its device
Event_into_device_event_AnyInput(self, device) ==
    IF self.category = "Input" THEN Some(self) ELSE None

\* Event::into_device_event
Event_into_device_event(self, device) ==
    IF self.category = "Input" /\ self.device = device THEN Some(self)
    ELSE None

\* ------------------------------------------- mouse.rs (raw input parser)
\* capacity of the event buffer
EVENT_BUFFER_SIZE == 8

\* has_bit_flags(value, flags): value & 1 == 0 for a zero mask, value &
\* flags != 0 otherwise (every mask used has one bit set)
has_bit_flags(value, flags) ==
    IF flags = 0 THEN value % 2 = 0
    ELSE (value \div flags) % 2 # 0

\* (mutant) a set flag pushes the press and the release of its button
parse_buttons_into_Both(input, events) ==
    LET push_if(evs, mask, button, state) ==
            IF has_bit_flags(input.usButtonFlags, mask)
            THEN evs \o <<MouseButtonChanged(button, Pressed),
                          MouseButtonChanged(button, Released)>>
            ELSE evs
        e1 == push_if(events, 1, "Left", Pressed)
        e2 == push_if(e1, 2, "Left", Released)
        e3 == push_if(e2, 4, "Right", Pressed)
        e4 == push_if(e3, 8, "Right", Released)
        e5 == push_if(e4, 16, "Center", Pressed)
    IN push_if(e5, 32, "Center", Released)

\* parse_buttons_into: one push_if per RI_MOUSE_*_BUTTON_DOWN / _UP mask
\* (0x0001 .. 0x0020), in this order
parse_buttons_into(input, events) ==
    LET push_if(evs, mask, button, state) ==
            IF has_bit_flags(input.usButtonFlags, mask)
            THEN Append(evs, MouseButtonChanged(button, state))
            ELSE evs
        e1 == push_if(events, 1, "Left", Pressed)
        e2 == push_if(e1, 2, "Left", Released)
        e3 == push_if(e2, 4, "Right", Pressed)
        e4 == push_if(e3, 8, "Right", Released)
        e5 == push_if(e4, 16, "Center", Pressed)
    IN push_if(e5, 32, "Center", Released)

\* parse_raw_input: the events of parse_movement (MOUSE_MOVE_RELATIVE is
\* the zero mask; a relative movement of (0, 0) is no event), parse_wheel
\* (RI_MOUSE_WHEEL is 0x0400; the delta is usButtonData as SHORT divided by
\* WHEEL_DELTA) and parse_buttons_into, pushed in this order
parse_raw_input(input) ==
    LET relative == IF has_bit_flags(input.usFlags, 0)
                    THEN Some(<<input.lLastX, input.lLastY>>)
                    ELSE None
        movement == IF relative = None \/ relative[2] # <<0, 0>>
                    THEN <<MouseMoved(input.cursor, relative)>>
                    ELSE <<>>
        short == IF input.usButtonData >= 32768
                 THEN input.usButtonData - 65536
                 ELSE input.usButtonData
        wheel == IF has_bit_flags(input.usButtonFlags, 1024)
                 THEN <<[kind |-> "MouseWheelRotated",
                         delta |-> IF short >= 0 THEN short \div 120
                                   ELSE -((-short) \div 120)]>>
                 ELSE <<>>
    IN Ok(parse_buttons_into(input, movement \o wheel))

\* ------------------------------------------------- the event stream seen
\* the elements whose latest event says Pressed, after ev
HeldAfter(h, ev, kind) ==
    IF ev.kind # kind THEN h
    ELSE LET e == IF kind = "MouseButtonChanged" THEN Some(ev.button)
                  ELSE ev.keycode
         IN IF e = None THEN h
            ELSE IF ev.state = Pressed THEN h \cup {e[2]} ELSE h \ {e[2]}

\* the end-to-end scenario: on a fresh MouseSnapshot, react(Left Pressed),
\* react(MouseMoved, relative (5, 5)), snapshot().  0..3 is the number of
\* its steps done, -1 says that the run is not the scenario.
ScenarioAfterReact(n, ev) ==
    IF n = 0 /\ ev = MouseButtonChanged("Left", Pressed) THEN 1
    ELSE IF n = 1 /\ ev = MouseMoved(None, Some(<<5, 5>>)) THEN 2
    ELSE -1
ScenarioAfterSnapshot(n) == IF n = 2 THEN 3 ELSE -1

\* ------------------------------------------------------------------- Init
\* the state of an event thread before run() is entered
EngineInit ==
    /\ engine \in {"platform", "legacy"}
    /\ pc = "start"
    /\ registered = FALSE
    /\ reaction = ReactionDefault
    /\ poll = LegacyPollDefault
    /\ queue = <<>>
    /\ message = MSG(WM_NULL)
    /\ resumption = "None"
    /\ native = <<>>
    /\ posted = 0
    /\ quitPosted = FALSE
    /\ quitCode = 0
    /\ now = 0
    /\ nextSeq = 0
    /\ lastEvent = NoEvent
    /\ phase = "None"
    /\ polls = 0
    /\ lastResult = <<"None">>
    /\ reacts = 0
    /\ deliveredSeq = 0
    /\ sawAbort = FALSE
    /\ abortCalls = 0
    /\ abortDone = FALSE
    /\ callAfterAbort = FALSE
    /\ hookResult = NoResult
    /\ deadline = -1
    /\ panicked = FALSE
    /\ exitCode = -1
    /\ foreign = "none"

LibraryFresh ==
    /\ mouse = MouseSnapshot_new
    /\ keyboard = KeyboardSnapshot_new
    /\ call = NoCall
    /\ held = {}
    /\ heldAtSnap = {}
    /\ snaps = 0
    /\ scenario = 0
    /\ toggled = {}

\* an event thread is run; no library object is exercised on its own
Init ==
    /\ EngineInit
    /\ hwnd = "none" /\ dropped = FALSE
    /\ subject = "engine" /\ LibraryFresh

\* one library object is exercised on its own; no event thread is run
LibInit ==
    /\ EngineInit
    /\ hwnd = "none" /\ dropped = FALSE
    /\ subject \in {"mouse", "keyboard", "reactor", "state", "event",
                    "conversion", "parser"}
    /\ LibraryFresh

\* ------------------------------------------------------------ environment
\* Some thread or the system posts a native message to the event thread.
PostMessage ==
    /\ pc \notin Terminal
    /\ posted < MaxNative
    /\ \E kind \in {"WM_CLOSE", "WM_INPUT"} :
          native' = Append(native, Msg(kind, 0, posted + 1))
    /\ posted' = posted + 1
    /\ UNCHANGED <<fixedVars, pc, registered, queue, message, resumption,
                   now, procVars, abortCalls, abortDone>>

\* Code other than the engine calls PostQuitMessage(code).
PostQuitMessage ==
    /\ pc \in {"start", "peek", "flush", "drain", "getmessage", "msgwait",
               "resume", "poll"}
    /\ ~quitPosted
    /\ quitPosted' = TRUE
    /\ quitCode' \in ExternalQuitCodes
    /\ UNCHANGED <<fixedVars, pc, registered, queue, message, resumption,
                   envVars, nextSeq, hookResult, panicked, exitCode, hwnd,
                   reaction, poll, deadline, lastEvent, phase, polls,
                   lastResult, reacts,
                   deliveredSeq, sawAbort, callAfterAbort, abortCalls,
                   abortDone>>

\* Time passes.  The clock is advanced in the positions from which it is
\* read next: before poll / wait_for_message_until, during the timed wait,
\* and in the legacy poll.
Tick ==
    /\ pc \in {"drain", "msgwait", "poll"}
    /\ now < MaxTime
    /\ now' = now + 1
    /\ UNCHANGED <<fixedVars, pc, registered, queue, message, resumption,
                   native, posted, procVars, abortCalls, abortDone>>

\* The window procedure is entered while no event loop is between its
\* registration and its unregistration (messages sent during window
\* creation, during Reactor::abort, or after run_and_join returned).
StrayCallback ==
    /\ pc \in {"start", "inabort", "joined"}
    /\ \E m \in {Msg("WM_CLOSE", 0, 0), Msg("WM_INPUT", 0, 0)} :
       \E out \in HookOutcomes :
          procedure(m, out, pc)
    /\ UNCHANGED <<fixedVars, registered, message, resumption, envVars,
                   abortCalls, abortDone>>

\* One retrieval by PeekMessageW / GetMessageW of a message that exists:
\* the MSG buffer is written and the message leaves the queue.
Retrieve ==
    /\ message' = MSG(NextMessage)
    /\ native' = IF native # <<>> THEN Tail(native) ELSE native
    /\ UNCHANGED <<posted, now>>

\* reading WM_QUIT consumes the quit request and calls nothing
QuitRead ==
    /\ quitPosted' = FALSE
    /\ UNCHANGED <<reaction, poll, deadline, quitCode, lastEvent, phase,
                   polls,
                   lastResult, reacts, deliveredSeq, sawAbort,
                   callAfterAbort, queue, nextSeq, hookResult, panicked,
                   exitCode, hwnd>>

\* ------------------------------------------------ platform EventThread::run
\* EVENT_THREAD.with(|thread| thread.set(Some(self)))
PlatformRegister ==
    /\ Platform /\ pc = "start"
    /\ registered' = TRUE
    /\ pc' = "peek"
    /\ UNCHANGED <<fixedVars, queue, message, resumption, envVars, procVars,
                   abortCalls, abortDone>>

\* while PeekMessageW(..) != 0 { if WM_QUIT { break 'react } dispatch }
PlatformPeek ==
    /\ Platform /\ pc = "peek"
    /\ IF NativeEmpty
       THEN /\ pc' = "flush"
            /\ UNCHANGED <<message, envVars, procVars>>
       ELSE /\ Retrieve
            /\ IF IsQuit(NextMessage)
               THEN pc' = "unregister" /\ QuitRead
               ELSE \E out \in HookOutcomes :
                       procedure(NextMessage, out, "peek")
    /\ UNCHANGED <<fixedVars, registered, resumption, abortCalls, abortDone>>

\* self.react(Event::Application { event: Flushed })
PlatformFlushed ==
    /\ Platform /\ pc = "flush"
    /\ \E r \in ReactResults : PlatformReact(Flushed, r)
    /\ pc' = "drain"
    /\ UNCHANGED <<fixedVars, registered, queue, message, resumption,
                   envVars, nextSeq, hookResult, panicked, exitCode, hwnd,
                   abortCalls, abortDone>>

\* while let Some(event) = self.queue.pop_front() { self.react(event) }
PlatformDrain ==
    /\ Platform /\ pc = "drain" /\ queue # <<>>
    /\ \E r \in ReactResults : PlatformReact(Platform_pop(queue).event, r)
    /\ queue' = Platform_pop(queue).rest
    /\ UNCHANGED <<fixedVars, pc, registered, message, resumption, envVars,
                   nextSeq, hookResult, panicked, exitCode, hwnd, abortCalls,
                   abortDone>>

\* (mutant) Continue(Ready) leaves the loop
PlatformMatch_ReadyBreaks(rx) ==
    IF rx = Continue(Wait) THEN "getmessage"
    ELSE IF rx = Continue(Ready) THEN "break"
    ELSE IF rx = Abort THEN "break"
    ELSE "waituntil"

\* the arm of `match self.reaction` taken after self.poll()
PlatformMatch(rx) ==
    IF rx = Continue(Wait) THEN "getmessage"
    ELSE IF rx = Continue(Ready) THEN "ready"
    ELSE IF rx = Abort THEN "break"
    ELSE "waituntil"

\* wait_for_message_until: Ok (enters the wait) iff until >= now
DeadlineAhead(until, t) == until >= t

\* self.poll(); let resumption = match self.reaction { .. }
PlatformPoll ==
    /\ Platform /\ pc = "drain" /\ queue = <<>>
    /\ \E r \in PollResults :
         LET rx == Platform_poll(reaction, r)
             arm == PlatformMatch(rx)
         IN /\ reaction' = rx
            /\ lastResult' = r
            /\ polls' = IF polls < 2 THEN polls + 1 ELSE polls
            /\ sawAbort' = (sawAbort \/ r = Abort)
            /\ callAfterAbort' = (callAfterAbort \/ abortCalls > 0)
            /\ IF arm = "getmessage"
               THEN pc' = "getmessage" /\ UNCHANGED resumption
               ELSE IF arm = "ready"
               THEN pc' = "resume" /\ resumption' = "Poll"
               ELSE IF arm = "break"
               THEN pc' = "unregister" /\ UNCHANGED resumption
               ELSE IF DeadlineAhead(rx[2][2], now)
               THEN pc' = "msgwait" /\ UNCHANGED resumption
               ELSE \* Err(_) => Resumption::Poll
                    pc' = "resume" /\ resumption' = "Poll"
    /\ UNCHANGED <<fixedVars, registered, queue, message, envVars, poll,
                   deadline, quitPosted, quitCode, lastEvent, phase, reacts,
                   deliveredSeq, nextSeq, hookResult, panicked, exitCode, hwnd,
                   abortCalls, abortDone>>

\* Continue(Wait): GetMessageW blocks until a message can be retrieved
PlatformGetMessage ==
    /\ Platform /\ pc = "getmessage"
    /\ ~NativeEmpty
    /\ Retrieve
    /\ IF IsQuit(NextMessage)
       THEN pc' = "unregister" /\ QuitRead /\ UNCHANGED resumption
       ELSE /\ \E out \in HookOutcomes :
                  procedure(NextMessage, out, "resume")
            /\ resumption' = "Poll"
    /\ UNCHANGED <<fixedVars, registered, abortCalls, abortDone>>

\* Continue(WaitUntil(until)): MsgWaitForMultipleObjectsEx returns
\* WAIT_TIMEOUT once the deadline is reached, something else on input
PlatformMsgWait ==
    /\ Platform /\ pc = "msgwait"
    /\ \/ ~NativeEmpty /\ resumption' = "Interrupt"
       \/ now >= reaction[2][2] /\ resumption' = "Timeout"
    /\ pc' = "resume"
    /\ UNCHANGED <<fixedVars, registered, queue, message, envVars, procVars,
                   abortCalls, abortDone>>

\* (mutant) Resumed is delivered after a wait only, not after Continue(Ready)
PlatformResumed_WaitsOnly ==
    /\ Platform /\ pc = "resume"
    /\ IF resumption = "Poll" THEN UNCHANGED reactVars
       ELSE \E r \in ReactResults : PlatformReact(Resumed(resumption), r)
    /\ resumption' = "None"
    /\ pc' = "peek"
    /\ UNCHANGED <<fixedVars, registered, queue, message, envVars, nextSeq,
                   hookResult, panicked, exitCode, hwnd, abortCalls, abortDone>>

\* self.react(Event::Application { event: Resumed(resumption) })
PlatformResumed ==
    /\ Platform /\ pc = "resume"
    /\ \E r \in ReactResults : PlatformReact(Resumed(resumption), r)
    /\ resumption' = "None"
    /\ pc' = "peek"
    /\ UNCHANGED <<fixedVars, registered, queue, message, envVars, nextSeq,
                   hookResult, panicked, exitCode, hwnd, abortCalls, abortDone>>

\* (mutant) the thread-local slot is left set when the loop has stopped
PlatformUnregister_Kept ==
    /\ Platform /\ pc = "unregister"
    /\ pc' = "abort"
    /\ UNCHANGED <<fixedVars, registered, queue, message, resumption, envVars,
                   procVars, abortCalls, abortDone>>

\* EVENT_THREAD.with(|thread| thread.set(None))
PlatformUnregister ==
    /\ Platform /\ pc = "unregister"
    /\ registered' = FALSE
    /\ pc' = "abort"
    /\ UNCHANGED <<fixedVars, queue, message, resumption, envVars, procVars,
                   abortCalls, abortDone>>

\* (mutant) the engine is dropped without calling Reactor::abort
PlatformAbort_Dropped ==
    /\ Platform /\ pc = "abort"
    /\ queue' = <<>>
    /\ pc' = "inabort"
    /\ UNCHANGED <<fixedVars, registered, message, resumption, envVars,
                   reactVars, nextSeq, hookResult, panicked, exitCode, hwnd,
                   abortCalls, abortDone>>

\* self.abort(): the engine is taken apart and Reactor::abort is entered
PlatformAbort ==
    /\ Platform /\ pc = "abort"
    /\ abortCalls' = abortCalls + 1
    /\ queue' = <<>>
    /\ pc' = "inabort"
    /\ UNCHANGED <<fixedVars, registered, message, resumption, envVars,
                   reactVars, nextSeq, hookResult, panicked, exitCode, hwnd,
                   abortDone>>

\* (mutant) run() returns 0 whatever ended the loop
ExitValue_Zero(m) == 0

\* the value run() returns
ExitValue(m) == IF IsQuit(m) THEN m.wParam ELSE 0

\* Entry::run_and_abort: Reactor::abort returns, run() returns and its value
\* goes to process::exit.  (Which Entry function called run() shows only
\* here, after run() has returned.)
RunAndAbort ==
    /\ Platform /\ pc = "inabort"
    /\ abortDone' = TRUE
    /\ pc' = "exited"
    /\ exitCode' = ExitValue(message)
    /\ UNCHANGED hwnd
    /\ UNCHANGED <<fixedVars, registered, queue, message, resumption,
                   envVars, reactVars, nextSeq, hookResult, panicked,
                   abortCalls>>

\* Entry::run_and_join: Reactor::abort returns, run() returns and control
\* goes back to the caller; the process lives on.
RunAndJoin ==
    /\ Platform /\ pc = "inabort"
    /\ abortDone' = TRUE
    /\ pc' = "joined"
    /\ UNCHANGED <<fixedVars, registered, queue, message, resumption,
                   envVars, reactVars, nextSeq, hookResult, panicked,
                   exitCode, hwnd, abortCalls>>

\* -------------------------------------------------- legacy EventThread::run
\* *thread.borrow_mut() = Some(self)
LegacyRegister ==
    /\ Legacy /\ pc = "start"
    /\ registered' = TRUE
    /\ pc' = "poll"
    /\ UNCHANGED <<fixedVars, queue, message, resumption, envVars, procVars,
                   abortCalls, abortDone>>

\* (mutant) every poll mode but Abort peeks
LegacyPollBranch_PeekAlways(q, p) ==
    IF q # <<>> THEN "queue"
    ELSE IF p # PollAbort THEN "peek"
    ELSE "getmessage"

\* (mutant) in mode Ready a native message is looked for before the queue
LegacyPollBranch_FetchFirst(q, p) ==
    IF p = Ready THEN "peek"
    ELSE IF q # <<>> THEN "queue"
    ELSE "getmessage"

\* the branch EventThread::poll takes
LegacyPollBranch(q, p) ==
    IF q # <<>> THEN "queue"
    ELSE IF p = Ready THEN "peek"
    ELSE "getmessage"

\* if let Some(event) = self.queue.pop_back() { self.react(event); Repoll }
LegacyPollQueue ==
    /\ Legacy /\ pc = "poll"
    /\ LegacyPollBranch(queue, poll) = "queue"
    /\ \E r \in LegacyReactResults : LegacyReact(Legacy_pop(queue).event, r)
    /\ queue' = Legacy_pop(queue).rest
    /\ UNCHANGED <<fixedVars, pc, registered, message, resumption, envVars,
                   nextSeq, hookResult, panicked, exitCode, hwnd, abortCalls,
                   abortDone>>

\* Poll::Ready => PeekMessageW: nothing => react(QueueExhausted), Repoll;
\* otherwise parse(message == WM_QUIT, message) and run() dispatches
LegacyPollReady ==
    /\ Legacy /\ pc = "poll"
    /\ LegacyPollBranch(queue, poll) = "peek"
    /\ IF NativeEmpty
       THEN /\ \E r \in LegacyReactResults : LegacyReact(QueueExhausted, r)
            /\ UNCHANGED <<pc, message, envVars, queue, nextSeq, hookResult,
                           panicked, exitCode, hwnd>>
       ELSE /\ Retrieve
            /\ IF IsQuit(NextMessage)
               THEN pc' = "unregister" /\ QuitRead
               ELSE \E out \in HookOutcomes :
                       procedure(NextMessage, out, "poll")
    /\ UNCHANGED <<fixedVars, registered, resumption, abortCalls, abortDone>>

\* _ => parse(GetMessageW(..) == 0, message): blocks until a message can be
\* retrieved, whatever the poll mode (Wait, Timeout or Abort)
LegacyPollWait ==
    /\ Legacy /\ pc = "poll"
    /\ LegacyPollBranch(queue, poll) = "getmessage"
    /\ ~NativeEmpty
    /\ Retrieve
    /\ IF IsQuit(NextMessage)
       THEN pc' = "unregister" /\ QuitRead
       ELSE \E out \in HookOutcomes : procedure(NextMessage, out, "poll")
    /\ UNCHANGED <<fixedVars, registered, resumption, abortCalls, abortDone>>

\* PollResult::Abort(code) => *thread.borrow_mut() = None
LegacyUnregister ==
    /\ Legacy /\ pc = "unregister"
    /\ registered' = FALSE
    /\ pc' = "abort"
    /\ UNCHANGED <<fixedVars, queue, message, resumption, envVars, procVars,
                   abortCalls, abortDone>>

\* self.abort(): the engine is taken apart and Reactor::abort is entered
LegacyAbort ==
    /\ Legacy /\ pc = "abort"
    /\ abortCalls' = abortCalls + 1
    /\ queue' = <<>>
    /\ pc' = "inabort"
    /\ UNCHANGED <<fixedVars, registered, message, resumption, envVars,
                   reactVars, nextSeq, hookResult, panicked, exitCode, hwnd,
                   abortDone>>

\* Reactor::abort returns; windows::exit_process(code), code being the
\* wParam of the quit message
LegacyExit ==
    /\ Legacy /\ pc = "inabort"
    /\ abortDone' = TRUE
    /\ pc' = "exited"
    /\ exitCode' = exit_process(message.wParam)
    /\ UNCHANGED hwnd
    /\ UNCHANGED <<fixedVars, registered, queue, message, resumption,
                   envVars, reactVars, nextSeq, hookResult, panicked,
                   abortCalls>>

\* ------------------------------------------------------------------- Next
\* the steps of the event thread itself
EngineStep ==
    \/ PlatformRegister \/ PlatformPeek \/ PlatformFlushed \/ PlatformDrain
    \/ PlatformPoll \/ PlatformGetMessage \/ PlatformMsgWait
    \/ PlatformResumed \/ PlatformUnregister \/ PlatformAbort
    \/ RunAndAbort \/ RunAndJoin
    \/ LegacyRegister \/ LegacyPollQueue \/ LegacyPollReady
    \/ LegacyPollWait \/ LegacyUnregister \/ LegacyAbort \/ LegacyExit

Next ==
    \/ PostMessage
    \/ PostQuitMessage
    \/ Tick
    \/ StrayCallback
    \/ PlatformRegister
    \/ PlatformPeek
    \/ PlatformFlushed
    \/ PlatformDrain
    \/ PlatformPoll
    \/ PlatformGetMessage
    \/ PlatformMsgWait
    \/ PlatformResumed
    \/ PlatformUnregister
    \/ PlatformAbort
    \/ RunAndAbort
    \/ RunAndJoin
    \/ LegacyRegister
    \/ LegacyPollQueue
    \/ LegacyPollReady
    \/ LegacyPollWait
    \/ LegacyUnregister
    \/ LegacyAbort
    \/ LegacyExit

Spec == Init /\ [][Next]_vars

\* The event thread is a running thread: a step of the loop that can be
\* taken is taken.  Nothing is assumed of the environment or the clock.
FairSpec == Spec /\ WF_vars(EngineStep)

\* ----------------------------------------------------- a second thread
\* A window procedure runs on a thread other than the event thread (a
\* window owned by that thread gets WM_CLOSE or WM_INPUT) while the
\* platform engine runs: its hook call reads that thread's slot.
ForeignCallback ==
    /\ subject = "threads" /\ Platform
    /\ pc # "exited"
    /\ LET slot == EVENT_THREAD(OtherThreadId)
       IN /\ \/ /\ \E r \in ReactResults :
                        HookReactOn(slot, ClosedRequested(0), r)
                  /\ UNCHANGED <<queue, nextSeq>>
               \/ \E n \in 1..MaxBatch :
                     HookEnqueueOn(slot,
                         [k \in 1..n |-> MouseInput(0, nextSeq + k)])
          /\ foreign' = IF HookTarget(slot) THEN "reached"
                        ELSE IF foreign = "none" THEN "failed"
                        ELSE foreign
    /\ UNCHANGED <<engine, dropped, libVars, pc, registered, message,
                   resumption, envVars, panicked, exitCode, hwnd, abortCalls,
                   abortDone>>

\* a platform event thread runs while another thread makes hook calls
ThreadInit ==
    /\ EngineInit
    /\ hwnd = "none" /\ dropped = FALSE
    /\ Platform /\ subject = "threads" /\ LibraryFresh

ThreadNext ==
    \/ PostMessage
    \/ PostQuitMessage
    \/ Tick
    \/ StrayCallback
    \/ PlatformRegister
    \/ PlatformPeek
    \/ PlatformFlushed
    \/ PlatformDrain
    \/ PlatformPoll
    \/ PlatformGetMessage
    \/ PlatformMsgWait
    \/ PlatformResumed
    \/ PlatformUnregister
    \/ PlatformAbort
    \/ RunAndAbort
    \/ RunAndJoin
    \/ ForeignCallback

ThreadSpec == ThreadInit /\ [][ThreadNext]_vars

\* ------------------------------------------------------------- a window
\* Drop for Window: PostMessageW(self.handle, *WM_DROP, 0, 0).  A Window is
\* Send and is dropped by whoever owns it, on any thread and at any time
\* while the process lives: while the loop runs, when Reactor::abort drops
\* the reactor that owns it, or after run_and_join has returned.
WindowDrop ==
    /\ subject = "window" /\ Platform
    /\ pc # "exited"
    /\ hwnd = "alive" /\ ~dropped
    /\ dropped' = TRUE
    /\ native' = Append(native, WM_DROP)
    /\ UNCHANGED <<engine, foreign, libVars, pc, registered, queue, message,
                   resumption, posted, now, procVars, abortCalls, abortDone>>

\* a platform event thread runs; a Window was built on it before run()
WindowInit ==
    /\ EngineInit
    /\ hwnd = "alive" /\ dropped = FALSE
    /\ Platform /\ subject = "window" /\ LibraryFresh

WindowNext ==
    \/ PostMessage
    \/ PostQuitMessage
    \/ Tick
    \/ StrayCallback
    \/ PlatformRegister
    \/ PlatformPeek
    \/ PlatformFlushed
    \/ PlatformDrain
    \/ PlatformPoll
    \/ PlatformGetMessage
    \/ PlatformMsgWait
    \/ PlatformResumed
    \/ PlatformUnregister
    \/ PlatformAbort
    \/ RunAndAbort
    \/ RunAndJoin
    \/ WindowDrop

WindowSpec == WindowInit /\ [][WindowNext]_vars

\* the event thread is a running thread, as in FairSpec
FairWindowSpec == WindowSpec /\ WF_vars(EngineStep)

\* ApplicationEvent::TimeoutExpired (no engine ever constructs it)
TimeoutExpired == Ev("TimeoutExpired", "None", 0, 0)

TypeOK ==
    /\ pc \in {"start", "peek", "flush", "drain", "getmessage", "msgwait",
               "resume", "poll", "unregister", "abort", "inabort",
               "exited", "joined"}
    /\ abortCalls \in 0..2
    /\ Len(queue) <= MaxNative * MaxBatch


\* ===================================================== the library, run
engineVars == <<engine, pc, registered, reaction, poll, queue, message,
                resumption, native, posted, quitPosted, quitCode, now,
                nextSeq, lastEvent, phase, polls, lastResult, reacts,
                deliveredSeq,
                sawAbort, abortCalls, abortDone, callAfterAbort, hookResult,
                deadline, panicked, exitCode, hwnd, foreign, dropped>>

\* mouse.react(&event)
MouseReact ==
    /\ subject = "mouse"
    /\ \E ev \in InputEvents :
          /\ mouse' = MouseSnapshot_react(mouse, ev)
          /\ held' = HeldAfter(held, ev, "MouseButtonChanged")
          /\ toggled' = LET h == HeldAfter(held, ev, "MouseButtonChanged")
                         IN toggled \cup (held \ h) \cup (h \ held)
          /\ scenario' = ScenarioAfterReact(scenario, ev)
          /\ call' = Call("react", "mouse", ev, Unit)
    /\ snaps' = 0
    /\ UNCHANGED <<engineVars, subject, keyboard, heldAtSnap>>

\* mouse.snapshot()
MouseSnapshot ==
    /\ subject = "mouse"
    /\ mouse' = MouseSnapshot_snapshot(mouse)
    /\ heldAtSnap' = held
    /\ toggled' = {}
    /\ snaps' = IF snaps < 2 THEN snaps + 1 ELSE snaps
    /\ scenario' = ScenarioAfterSnapshot(scenario)
    /\ call' = Call("snapshot", "mouse", None, Unit)
    /\ UNCHANGED <<engineVars, subject, keyboard, held>>

\* keyboard.react(&event)
KeyboardReact ==
    /\ subject = "keyboard"
    /\ \E ev \in InputEvents :
          /\ keyboard' = KeyboardSnapshot_react(keyboard, ev)
          /\ held' = HeldAfter(held, ev, "KeyboardKeyChanged")
          /\ toggled' = LET h == HeldAfter(held, ev, "KeyboardKeyChanged")
                         IN toggled \cup (held \ h) \cup (h \ held)
          /\ call' = Call("react", "keyboard", ev, Unit)
    /\ snaps' = 0
    /\ UNCHANGED <<engineVars, subject, mouse, heldAtSnap, scenario>>

\* keyboard.snapshot()
KeyboardSnapshot ==
    /\ subject = "keyboard"
    /\ keyboard' = KeyboardSnapshot_snapshot(keyboard)
    /\ heldAtSnap' = held
    /\ toggled' = {}
    /\ snaps' = IF snaps < 2 THEN snaps + 1 ELSE snaps
    /\ call' = Call("snapshot", "keyboard", None, Unit)
    /\ UNCHANGED <<engineVars, subject, mouse, held, scenario>>

\* reactor.poll(&context) of a reactor that uses a library implementation
ReactorPoll ==
    /\ subject = "reactor"
    /\ \E impl \in PollImpls :
          call' = Call("poll", impl, None, Reactor_poll(impl))
    /\ UNCHANGED <<engineVars, subject, mouse, keyboard, held, heldAtSnap,
                   snaps, scenario, toggled>>

\* <T as State>::transition(new, old)
StateTransition ==
    /\ subject = "state"
    /\ \E ty \in StateTypes :
       \E new \in StateValues(ty), old \in StateValues(ty) :
          call' = Call("transition", ty, <<new, old>>,
                       State_transition(new, old))
    /\ UNCHANGED <<engineVars, subject, mouse, keyboard, held, heldAtSnap,
                   snaps, scenario, toggled>>

\* event.into_window_event(window)
EventIntoWindow ==
    /\ subject = "event"
    /\ \E e \in Events, w \in WindowHandle :
          call' = Call("into_window_event", "Event",
                       [event |-> e, handle |-> w],
                       Event_into_window_event(e, w))
    /\ UNCHANGED <<engineVars, subject, mouse, keyboard, held, heldAtSnap,
                   snaps, scenario, toggled>>

\* event.into_device_event(device)
EventIntoDevice ==
    /\ subject = "event"
    /\ \E e \in Events, d \in DeviceHandle :
          call' = Call("into_device_event", "Event",
                       [event |-> e, handle |-> d],
                       Event_into_device_event(e, d))
    /\ UNCHANGED <<engineVars, subject, mouse, keyboard, held, heldAtSnap,
                   snaps, scenario, toggled>>

\* Reaction::from(option), Poll::from(option)
FromOption ==
    /\ subject = "conversion"
    /\ \/ \E o \in {None} \cup {Some(r) : r \in Reactions} :
             call' = Call("from_option", "Reaction", o,
                          Reaction_from_Option(o))
       \/ \E o \in {None} \cup {Some(p) : p \in LegacyReactResults} :
             call' = Call("from_option", "Poll", o, Poll_from_Option(o))
    /\ UNCHANGED <<engineVars, subject, mouse, keyboard, held, heldAtSnap,
                   snaps, scenario, toggled>>

\* Reaction::from(result), Poll::from(result)
FromResult ==
    /\ subject = "conversion"
    /\ \/ \E r \in Errors \cup {Ok(v) : v \in Reactions} :
             call' = Call("from_result", "Reaction", r,
                          Reaction_from_Result(r))
       \/ \E r \in Errors \cup {Ok(p) : p \in LegacyReactResults} :
             call' = Call("from_result", "Poll", r, Poll_from_Result(r))
    /\ UNCHANGED <<engineVars, subject, mouse, keyboard, held, heldAtSnap,
                   snaps, scenario, toggled>>

\* reaction.map(f)
ReactionMap ==
    /\ subject = "conversion"
    /\ \E r \in {Abort} \cup {Continue(v) : v \in Payloads}, f \in Closures :
          call' = Call("map", "Reaction", [self |-> r, f |-> f],
                       Reaction_map(r, f))
    /\ UNCHANGED <<engineVars, subject, mouse, keyboard, held, heldAtSnap,
                   snaps, scenario, toggled>>

\* mouse::parse_raw_input(window, input.data.mouse()): the RAWMOUSE record
\* has any of the six button flags, the wheel flag and RI_MOUSE_BUTTON_4_DOWN
\* (0x0040, which the parser does not read); cursor is what GetCursorPos
\* gives (None when it fails)
ParseRawInput ==
    /\ subject = "parser"
    /\ \E flags \in {b + w : b \in 0..63, w \in {0, 1024}} \cup {127, 1151},
          move \in {<<0, 0, 0>>, <<0, 5, 0>>, <<1, 0, 0>>},
          data \in {120, 65296},
          cursor \in {None, Some(<<0, 5>>)} :
          /\ flags \in {1024, 1087} \/ (data = 120 /\ cursor # None)
          /\ LET input == [usFlags |-> move[1], lLastX |-> move[2],
                           lLastY |-> move[3], usButtonFlags |-> flags,
                           usButtonData |-> data, cursor |-> cursor]
             IN call' = Call("parse_raw_input", "mouse", input,
                             parse_raw_input(input))
    /\ UNCHANGED <<engineVars, subject, mouse, keyboard, held, heldAtSnap,
                   snaps, scenario, toggled>>

LibNext ==
    \/ ParseRawInput
    \/ FromOption
    \/ FromResult
    \/ ReactionMap
    \/ EventIntoWindow
    \/ EventIntoDevice
    \/ StateTransition
    \/ MouseReact
    \/ MouseSnapshot
    \/ KeyboardReact
    \/ KeyboardSnapshot
    \/ ReactorPoll

LibSpec == LibInit /\ [][LibNext]_vars

\* =================================================================== claims

\* C1: in the platform engine the stored reaction, once Abort, stays Abort,
\* and it is Abort as soon as any react or poll call has returned Abort: no
\* later Continue from react and no Continue(Ready|Wait|WaitUntil) from poll
\* changes it back.
C1_AbortSticky ==
    [][Platform => /\ (reaction = Abort => reaction' = Abort)
                   /\ (sawAbort' => reaction' = Abort)]_vars

\* A flush batch of three queued events ended with a Continue, poll then
\* returned Continue(Wait), and the loop still left through the Abort arm.
C1_Witness ==
    /\ Platform /\ pc = "unregister" /\ ~IsQuit(message)
    /\ reaction = Abort
    /\ lastEvent.seq = 3
    /\ lastResult = Continue(Wait)

\* C2: in both engines Reactor::abort is invoked at most once, exactly once
\* when the loop has stopped and the run has ended, and the reactor is never
\* called (react or poll) after abort was invoked.  (A run that the window
\* procedure kills after a panic never stops its loop.)
C2_AbortOnce ==
    /\ abortCalls <= 1
    /\ (pc \in {"inabort"} \cup Terminal /\ ~panicked => abortCalls = 1)
    /\ ~callAfterAbort

\* The loop stopped on a quit message, abort ran once and a hook call made
\* afterwards failed.
C2_Witness ==
    /\ pc = "joined" /\ IsQuit(message)
    /\ abortCalls = 1
    /\ hookResult = Err

C4_Fifo ==
    [][deliveredSeq' # deliveredSeq => deliveredSeq' = deliveredSeq + 1]_vars

\* Native message 1 enqueued E1, E2, E3 and E3 was just delivered, last.
C4_Witness ==
    /\ Legacy
    /\ lastEvent = MouseInput(1, 3)
    /\ deliveredSeq = 3

\* C5: in the platform engine an event produced by a native message is
\* delivered only when no event enqueued during an earlier native message
\* is still in the internal queue.
C5_DrainedBeforeNextNative ==
    (Platform /\ lastEvent.origin > 0)
        => \A i \in DOMAIN queue : queue[i].origin >= lastEvent.origin

LegacyStopped ==
    /\ pc = "exited" /\ abortCalls = 1 /\ abortDone /\ ~registered

C8_WaitUntilResumption ==
    (Platform /\ pc = "resume" /\ reaction[1] = "Continue"
              /\ reaction[2][1] = "WaitUntil")
        => /\ resumption \in {"Interrupt", "Timeout"}
           /\ (resumption = "Interrupt" => ~NativeEmpty)

\* the legacy thread sits in GetMessageW with nothing to retrieve
LegacyBlocked ==
    /\ Legacy /\ pc = "poll"
    /\ LegacyPollBranch(queue, poll) = "getmessage"
    /\ NativeEmpty

\* C9: in the legacy engine, when the last react call returned Timeout(d)
\* and no native event arrived within d, the engine is not blocked: it is
\* about to send, or has sent, TimeoutExpired.
C9_NoBlockPastDeadline ==
    (Legacy /\ poll[1] = "Timeout" /\ now >= deadline)
        => (~LegacyBlocked \/ lastEvent = TimeoutExpired)

\* the situation in which the legacy engine owes a QueueExhausted
LegacyExhausted ==
    /\ pc = "poll" /\ poll = Ready /\ queue = <<>> /\ NativeEmpty

\* C10: in the legacy engine, with poll mode Ready, an empty internal queue
\* and nothing to retrieve the engine is not blocked and its step delivers
\* QueueExhausted; QueueExhausted is delivered in no other situation.
C10_QueueExhausted ==
    [][Legacy =>
        /\ (LegacyExhausted => ENABLED LegacyPollReady)
        /\ (LegacyExhausted /\ reacts' # reacts
               => lastEvent' = QueueExhausted)
        /\ (reacts' # reacts /\ lastEvent' = QueueExhausted
               => LegacyExhausted)]_vars

C10_Witness ==
    /\ Legacy /\ lastEvent = QueueExhausted /\ lastResult = Ready

\* C11: Reactor::poll of a reactor that does not override it returns
\* Continue(Wait), as the closure and StatefulReactor implementations do,
\* and with that result a running platform engine takes the blocking arm.
C11_DefaultPollWaits ==
    call.fn = "poll"
        => /\ call.out = Continue(Wait)
           /\ PlatformMatch(Platform_poll(ReactionDefault, call.out))
                  = "getmessage"

\* C12: in both engines a react or enqueue hook call made while no engine
\* is registered returns Err(()), invokes no reactor function, leaves the
\* internal queue as it is and does not panic.  (While nothing is
\* registered and the thread stays where it is, the only steps are such
\* hook calls and postings of native messages.)
C12_UnregisteredHooksFail ==
    [][(~registered /\ pc' = pc /\ posted' = posted)
          => /\ hookResult' \in {hookResult, Err}
             /\ reacts' = reacts /\ lastEvent' = lastEvent
             /\ lastResult' = lastResult
             /\ queue' = queue /\ nextSeq' = nextSeq
             /\ ~panicked' /\ exitCode' = exitCode]_vars

\* A window procedure ran before run() registered the engine: its hook
\* call failed and nothing was delivered or queued.
C12_Witness ==
    /\ ~registered /\ pc = "start"
    /\ hookResult = Err
    /\ reacts = 0 /\ queue = <<>> /\ lastEvent = NoEvent

\* the event thread retrieves the oldest posted native message and
\* dispatches it to the window procedure
Dispatches == native # <<>> /\ native' = Tail(native)

\* C13: in the platform engine, while the engine is registered, the react
\* hook invokes Reactor::react once with the event it was given and returns
\* Ok of the reaction that call returned (unless the call panics), and the
\* enqueue hook appends the events of its batch, in order, to the internal
\* queue, returns Ok(()) and invokes no reactor function.
C13_RegisteredHooks ==
    [][(Platform /\ registered /\ Dispatches) =>
          IF Head(native).message = "WM_CLOSE"
          THEN \/ panicked'
               \/ /\ reacts' # reacts
                  /\ lastEvent' = ClosedRequested(Head(native).id)
                  /\ hookResult' = Ok(lastResult')
                  /\ lastResult' \in ReactResults
                  /\ queue' = queue /\ nextSeq' = nextSeq
          ELSE /\ reacts' = reacts /\ lastEvent' = lastEvent
               /\ lastResult' = lastResult /\ reaction' = reaction
               /\ hookResult' = Ok(Unit)
               /\ \E n \in 0..MaxBatch :
                     /\ nextSeq' = nextSeq + n
                     /\ queue' = queue \o
                           [k \in 1..n |->
                               MouseInput(Head(native).id, nextSeq + k)]
      ]_vars

\* Message 1 put two events into the queue through the enqueue hook, then
\* message 2 went through the react hook, which returned Ok(Abort).
C13_Witness ==
    /\ Platform /\ registered
    /\ hookResult = Ok(Abort)
    /\ lastEvent = ClosedRequested(2)
    /\ queue = <<MouseInput(1, 1), MouseInput(1, 2)>>

\* C14: registration is per thread: a react or enqueue hook call made on
\* a thread other than the one running the event loop returns Err(()),
\* invokes no reactor function and leaves the queue alone, so that no
\* reactor function is ever invoked off the event thread.
C14_SingleThread ==
    [][/\ foreign' # "reached"
       /\ (foreign' # foreign
             => /\ hookResult' = Err
                /\ reacts' = reacts /\ lastEvent' = lastEvent
                /\ reaction' = reaction
                /\ queue' = queue /\ nextSeq' = nextSeq)]_vars

\* The other thread's hook call failed while the engine was registered and
\* held queued events; the event thread then delivered them.
C14_Witness ==
    /\ subject = "threads" /\ registered
    /\ foreign = "failed"
    /\ hookResult = Err
    /\ deliveredSeq = 2

\* C15: in both engines, when a Reactor::react call made from the window
\* procedure panics, the process ends there with exit code 1: the panicking
\* call is the last reactor call, the window procedure does not return to
\* the loop and nothing is delivered afterwards.
C15_PanicKills ==
    /\ [](panicked => /\ pc = "exited" /\ exitCode = 1
                      /\ lastResult = Panics /\ hookResult = Unwound)
    /\ [][panicked => (reacts' = reacts /\ pc' = pc /\ queue' = queue
                         /\ abortCalls' = abortCalls)]_vars

\* A react call panicked on Closed(Requested) of native message 2 while
\* events of message 1 were still queued; they were never delivered.
C15_Witness ==
    /\ panicked /\ exitCode = 1
    /\ lastEvent = ClosedRequested(2)
    /\ Len(queue) = MaxBatch /\ deliveredSeq = 0
    /\ abortCalls = 0

\* C16: when a platform run has ended (not by a panic), the loop ended on a
\* quit message or with the reaction Abort; after run_and_abort the process
\* has ended with the code given to PostQuitMessage in the first case and
\* with 0 in the second; after run_and_join the process has not ended.
C16_ExitValue ==
    (Platform /\ pc \in Terminal /\ ~panicked)
        => /\ (~IsQuit(message) => reaction = Abort)
           /\ (pc = "exited"
                 => exitCode = IF IsQuit(message) THEN quitCode ELSE 0)
           /\ (pc = "joined" => exitCode = -1)

\* run_and_abort ended the process with the quit code 2; no reactor call
\* had returned Abort.
C16_Witness ==
    /\ Platform /\ pc = "exited" /\ ~panicked
    /\ IsQuit(message) /\ ~sawAbort
    /\ exitCode = 2

\* C17: after snapshot() on a MouseSnapshot or a KeyboardSnapshot the old
\* state equals the new state and the set difference is empty; a second
\* snapshot() with no event in between changes nothing (and the difference
\* is empty again).
C17_SnapshotIdempotent ==
    /\ [](snaps >= 1 =>
            /\ (subject = "mouse" =>
                  /\ mouse.old = mouse.new
                  /\ SnapshotDifference_difference(mouse.new.buttons,
                                                   mouse.old.buttons)
                         = {<<>>})
            /\ (subject = "keyboard" =>
                  /\ keyboard.old = keyboard.new
                  /\ SnapshotDifference_difference(keyboard.new.keys,
                                                   keyboard.old.keys)
                         = {<<>>}))
    /\ [][(snaps >= 1 /\ snaps' > snaps)
             => (mouse' = mouse /\ keyboard' = keyboard)]_vars

\* snapshot() was called twice in a row on a mouse that had two buttons
\* down and had moved.
C17_Witness ==
    /\ subject = "mouse" /\ snaps = 2
    /\ mouse.new.buttons = {"Left", "Right"}
    /\ mouse.new.position = <<5, 5>>
    /\ mouse.old = mouse.new

\* the elements of a Vec, as a set
Elements(v) == {v[i] : i \in DOMAIN v}

\* C18: whatever button events a MouseSnapshot was given since its last
\* snapshot() call, every Vec that difference() may return lists, once
\* each, exactly the buttons that are held now and were not at that
\* snapshot, tagged Pressed, and the buttons that were held then and are
\* not now, tagged Released.
C18_DifferenceCorrect ==
    subject = "mouse" =>
        \A d \in SnapshotDifference_difference(mouse.new.buttons,
                                               mouse.old.buttons) :
            /\ Elements(d) =
                  {<<b, Pressed>> : b \in held \ heldAtSnap}
                  \cup {<<b, Released>> : b \in heldAtSnap \ held}
            /\ Len(d) = Cardinality((held \ heldAtSnap)
                                    \cup (heldAtSnap \ held))

\* Left and Right were down at the snapshot; since then Left was released
\* and Other(0) pressed.
C18_Witness ==
    /\ subject = "mouse"
    /\ heldAtSnap = {"Left", "Right"}
    /\ held = {"Right", "Other0"}
    /\ <<<<"Left", Released>>, <<"Other0", Pressed>>>>
          \in SnapshotDifference_difference(mouse.new.buttons,
                                            mouse.old.buttons)

\* what the button-set difference of the MouseSnapshot may return
ButtonDifference ==
    SnapshotDifference_difference(mouse.new.buttons, mouse.old.buttons)

\* C19 (as stated): on a fresh MouseSnapshot, after react(MouseButtonChanged
\* {Left, Pressed}), react(MouseMoved{relative (5, 5)}) and snapshot(), the
\* button-set difference is exactly [(Left, Pressed)].
C19_ScenarioAfterSnapshot ==
    scenario = 3 => ButtonDifference = {<< <<"Left", Pressed>> >>}

\* C19 (amended): ... after the two react calls the button-set difference
\* is exactly [(Left, Pressed)], and after the snapshot() that follows it
\* is empty.
C19_ScenarioBeforeSnapshot ==
    /\ (scenario = 2 => ButtonDifference = {<< <<"Left", Pressed>> >>})
    /\ (scenario = 3 => ButtonDifference = {<<>>})

\* the scenario was run to its end
C19_Witness ==
    /\ subject = "mouse" /\ scenario = 3
    /\ mouse.old.buttons = {"Left"}
    /\ mouse.new.position = <<0, 0>>

\* C20: the MousePosition difference of a MouseSnapshot is
\* Some((MousePosition, d)), d being the displacement from the old to the
\* new position, when the two positions differ, and None when they are
\* equal.
C20_PositionDifference ==
    subject = "mouse" =>
        MousePosition_difference(mouse) =
            IF mouse.new.position # mouse.old.position
            THEN Some(<<"MousePosition",
                        <<mouse.new.position[1] - mouse.old.position[1],
                          mouse.new.position[2] - mouse.old.position[2]>>>>)
            ELSE None

\* C21: for bool, ElementState and integer pairs, transition(a, a) is None
\* and transition(new = a, old = b) is Some(a) when a # b; so the transition
\* of a button, of the position and of the proximity of a MouseSnapshot is
\* None exactly when the element has the same state in new and old.
C21_TransitionLaw ==
    /\ (call.fn = "transition" =>
           /\ (call.arg[1] = call.arg[2] => call.out = None)
           /\ (call.arg[1] # call.arg[2] => call.out = Some(call.arg[1])))
    /\ (subject = "mouse" =>
           /\ \A b \in MouseButton :
                 (SnapshotTransition_transition(mouse.new.buttons,
                                                mouse.old.buttons, b) = None)
                    <=> ((b \in held) <=> (b \in heldAtSnap))
           /\ (State_transition(mouse.new.position, mouse.old.position)
                  = None) <=> (mouse.new.position = mouse.old.position)
           /\ (State_transition(mouse.new.proximity, mouse.old.proximity)
                  = None) <=> (mouse.new.proximity = mouse.old.proximity))

\* transition was called on the points (5, 5) and (0, 0)
C21_Witness ==
    /\ call.fn = "transition"
    /\ call.impl = "pair"
    /\ call.arg = << <<5, 5>>, <<0, 0>> >>
    /\ call.out = Some(<<5, 5>>)

\* C22: old changes in snapshot() only: react leaves old as it was for every
\* event; snapshot() sets old to a copy of new and leaves new as it was; so
\* old always holds what new held at the last snapshot(), whatever events
\* came after it.
C22_OldOnlyInSnapshot ==
    /\ [](subject = "mouse" => mouse.old.buttons = heldAtSnap)
    /\ [][/\ call'.fn = "react" =>
               /\ mouse'.old = mouse.old
               /\ keyboard'.old = keyboard.old
          /\ call'.fn = "snapshot" =>
               /\ (subject = "mouse" =>
                      /\ mouse'.old = mouse.new
                      /\ mouse'.new = mouse.new)
               /\ (subject = "keyboard" =>
                      /\ keyboard'.old = keyboard.new
                      /\ keyboard'.new = keyboard.new)]_vars

\* an event changed new after a snapshot() that captured a pressed button
C22_Witness ==
    /\ call.fn = "react"
    /\ subject = "mouse"
    /\ mouse.old.buttons = {"Left"}
    /\ mouse.new.buttons = {"Right"}
    /\ mouse.old.position = <<5, 5>>
    /\ mouse.new.position = <<0, 5>>

\* C23: MouseSnapshot::react on MouseButtonChanged of b: Pressed makes the
\* new button set the previous set plus b, Released the previous set minus
\* b; on MouseMoved with an absolute position p the new position is p; every
\* other field of new is left as it was.
C23_MutationRule ==
    [][LET Button(ev) ==
               /\ mouse'.new.buttons =
                     IF ev.state = Pressed
                     THEN mouse.new.buttons \cup {ev.button}
                     ELSE mouse.new.buttons \ {ev.button}
               /\ mouse'.new.position = mouse.new.position
               /\ mouse'.new.proximity = mouse.new.proximity
           Moved(ev) ==
               /\ mouse'.new.position = ev.absolute[2]
               /\ mouse'.new.buttons = mouse.new.buttons
               /\ mouse'.new.proximity = mouse.new.proximity
           ReactStep ==
               (call'.fn = "react" /\ subject = "mouse") =>
                   /\ (call'.arg.kind = "MouseButtonChanged"
                          => Button(call'.arg))
                   /\ ((call'.arg.kind = "MouseMoved"
                           /\ call'.arg.absolute # None)
                          => Moved(call'.arg))
       IN ReactStep]_vars

\* Right was pressed while Left was held and the pointer had been moved
C23_Witness ==
    /\ call.fn = "react"
    /\ subject = "mouse"
    /\ call.arg.kind = "MouseButtonChanged"
    /\ call.arg.button = "Right"
    /\ call.arg.state = Pressed
    /\ mouse.new.buttons = {"Left", "Right"}
    /\ mouse.new.position = <<5, 0>>

\* C24: every event other than MouseButtonChanged and MouseMoved with an
\* absolute position leaves new and old of a MouseSnapshot as they were;
\* every event other than KeyboardKeyChanged with a keycode leaves a
\* KeyboardSnapshot as it was.
C24_OthersIgnored ==
    [][LET MouseMatches(ev) ==
               \/ ev.kind = "MouseButtonChanged"
               \/ ev.kind = "MouseMoved" /\ ev.absolute # None
           KeyboardMatches(ev) ==
               ev.kind = "KeyboardKeyChanged" /\ ev.keycode # None
           ReactStep ==
               call'.fn = "react" =>
                   /\ ((subject = "mouse" /\ ~MouseMatches(call'.arg))
                          => mouse' = mouse)
                   /\ ((subject = "keyboard" /\ ~KeyboardMatches(call'.arg))
                          => keyboard' = keyboard)
       IN ReactStep]_vars

\* a movement that has a relative part only came while a button was held
\* and the position differed from the captured one
C24_Witness ==
    /\ call.fn = "react"
    /\ subject = "mouse"
    /\ call.arg.kind = "MouseMoved"
    /\ call.arg.absolute = None
    /\ call.arg.relative = Some(<<5, 5>>)
    /\ mouse.new.buttons = {"Left"}
    /\ mouse.new.position = <<0, 5>>
    /\ mouse.old.position = <<0, 0>>

\* C25: for a Window event e that carries the window W, into_window_event(W)
\* is Some(e), e unchanged, and into_window_event(W2) is None for every
\* W2 # W.
C25_WindowNarrowing ==
    (call.fn = "into_window_event" /\ call.arg.event.category = "Window") =>
        /\ (call.arg.event.window = call.arg.handle
               => call.out = Some(call.arg.event))
        /\ (call.arg.event.window # call.arg.handle => call.out = None)

\* a Resized event of window 1 was narrowed to window 2
C25_Witness ==
    /\ call.fn = "into_window_event"
    /\ call.arg = [event |-> Event_Window(1, "Resized"), handle |-> 2]
    /\ call.out = None

\* C26: an Input event whose window is None passes into_window_event(W)
\* unchanged for every window W; an Input event with window Some(W1) passes
\* exactly when W1 = W.
C26_InputNarrowing ==
    (call.fn = "into_window_event" /\ call.arg.event.category = "Input") =>
        /\ (call.arg.event.window = None
               => call.out = Some(call.arg.event))
        /\ (call.arg.event.window # None =>
               /\ call.out \in {None, Some(call.arg.event)}
               /\ (call.out = Some(call.arg.event))
                     <=> (call.arg.event.window = Some(call.arg.handle)))

\* an input event that names no window was narrowed to window 2 and passed
C26_Witness ==
    /\ call.fn = "into_window_event"
    /\ call.arg = [event |-> Event_Input(1, None, "MouseMoved"), handle |-> 2]
    /\ call.out = Some(Event_Input(1, None, "MouseMoved"))

\* C27: converting an Option or a Result into a Reaction (legacy: into a
\* Poll) yields Abort for None and for every Err, and the wrapped value
\* unchanged for Some(r) and Ok(r); Reaction::map keeps Abort and maps
\* Continue(v) to Continue(f(v)).
C27_Conversions ==
    /\ (call.fn = "from_option" =>
           /\ (call.arg = None => call.out = Abort)
           /\ (call.arg # None => call.out = call.arg[2]))
    /\ (call.fn = "from_result" =>
           /\ (call.arg[1] = "Err" => call.out = Abort)
           /\ (call.arg[1] = "Ok" => call.out = call.arg[2]))
    /\ (call.fn = "map" =>
           /\ (call.arg.self = Abort => call.out = Abort)
           /\ (call.arg.self # Abort =>
                  call.out = Continue(call.arg.f[call.arg.self[2]])))

\* an Err result was converted into a Reaction
C27_Witness ==
    /\ call.fn = "from_result"
    /\ call.impl = "Reaction"
    /\ call.arg = <<"Err", "io">>
    /\ call.out = Abort

\* C28: when a Window is dropped it is closed: after the Window object is
\* dropped at any point of a run, its native window is eventually destroyed
\* (the posted drop message is dispatched, DestroyWindow runs and the window
\* procedure sees the destruction).  (A process that has ended has no
\* window left: the end of the process counts as the window's end here.)
C28_DroppedIsClosed == dropped ~> (hwnd = "destroyed" \/ pc = "exited")

\* C29: in the platform engine Flushed and Resumed strictly alternate,
\* starting with Flushed (Resumed is never delivered before the first
\* Flushed), and exactly one poll query is made between each Flushed and the
\* Resumed, or the exit of the loop, that follows it.
C29_PhaseOrder ==
    [][LET Delivered(ev) == reacts' # reacts /\ lastEvent' = ev
           LoopExits == pc # "unregister" /\ pc' \in {"unregister", "exited"}
           Step ==
               Platform =>
                   /\ (Delivered(Flushed) => phase \in {"None", "Resumed"})
                   /\ \A r \in {"Poll", "Interrupt", "Timeout"} :
                         Delivered(Resumed(r))
                            => (phase = "Flushed" /\ polls = 1)
                   /\ (polls' # polls /\ polls' > 0) =>
                         (phase = "Flushed" /\ polls = 0)
                   /\ (LoopExits /\ phase = "Flushed") => polls' = 1
       IN Step]_vars

\* a second Flushed was delivered, after a Resumed that followed one poll
C29_Witness ==
    /\ Platform
    /\ lastEvent = Flushed /\ phase = "Flushed" /\ polls = 0
    /\ reaction = Continue(WaitUntil(0))
    /\ pc = "drain"

\* C30: in the platform engine Flushed marks a completed flush: whenever the
\* reactor receives Flushed, every event enqueued before it has already been
\* delivered, that is, the internal queue is empty.  (At "drain" with
\* Flushed as the last event received, the queue is as it was when Flushed
\* was delivered.)
C30_FlushedMeansDrained ==
    (Platform /\ pc = "drain" /\ lastEvent = Flushed) => queue = <<>>

C32_DrainedBeforeFetch ==
    [][(Legacy /\ (Len(native') < Len(native) \/ (quitPosted /\ ~quitPosted')))
          => (queue = <<>> /\ deliveredSeq = nextSeq)]_vars

\* a second native message was dispatched after the events enqueued by the
\* first one had been delivered
C32_Witness ==
    /\ Legacy /\ pc = "poll"
    /\ posted = 2 /\ native = <<>>
    /\ deliveredSeq >= 2
    /\ nextSeq > deliveredSeq
    /\ Len(queue) = nextSeq - deliveredSeq

\* C33: in both engines the engine is registered in the thread-local slot
\* exactly while the loop runs: it is set before the first native message is
\* retrieved and cleared after the loop has stopped and before
\* Reactor::abort is invoked; so a react or enqueue hook call made while
\* abort() executes fails (Err) and reaches neither reactor nor queue.
C33_RegisteredWhileLooping ==
    /\ [](/\ pc = "start" => (~registered /\ message = MSG(WM_NULL))
          /\ pc \in {"peek", "flush", "drain", "getmessage", "msgwait",
                     "resume", "poll", "unregister"} => registered
          /\ pc \in {"abort", "inabort", "joined"} => ~registered
          /\ (pc = "exited" /\ ~panicked) => ~registered
          /\ abortCalls > 0 => ~registered)
    /\ [][(pc = "inabort" /\ pc' = "inabort")
             => /\ hookResult' \in {hookResult, Err}
                /\ reacts' = reacts /\ lastResult' = lastResult
                /\ queue' = queue /\ nextSeq' = nextSeq]_vars

\* a hook call made while Reactor::abort executed has failed
C33_Witness ==
    /\ pc = "inabort" /\ abortCalls = 1 /\ ~abortDone
    /\ ~registered
    /\ hookResult = Err
    /\ lastEvent = Flushed

\* C34: in every reachable MouseSnapshot, difference and per-element
\* transition agree on the buttons: (b, s) is in difference() exactly when
\* transition(b) = Some(s), and a button that is not in the difference (one
\* never pressed or released included) has transition(b) = None.
C34_DifferenceIsTransition ==
    subject = "mouse" =>
        \A d \in ButtonDifference : \A b \in MouseButton :
            LET t == SnapshotTransition_transition(mouse.new.buttons,
                                                   mouse.old.buttons, b)
            IN /\ \A s \in ElementState :
                     (<<b, s>> \in Elements(d)) <=> (t = Some(s))
               /\ (\A s \in ElementState : <<b, s>> \notin Elements(d))
                     => t = None

\* Left was released and Right pressed since the snapshot; Other(0) was
\* never touched
C34_Witness ==
    /\ subject = "mouse"
    /\ heldAtSnap = {"Left"} /\ held = {"Right"}
    /\ snaps = 0
    /\ SnapshotTransition_transition(mouse.new.buttons, mouse.old.buttons,
                                     "Left") = Some(Released)
    /\ SnapshotTransition_transition(mouse.new.buttons, mouse.old.buttons,
                                     "Other0") = None
    /\ \E d \in ButtonDifference : <<"Left", Released>> \in Elements(d)

\* C35: the difference depends on the old and new pressed sets only, not on
\* the events in between: a button that was pressed and then released, or
\* released and then pressed again, since the last snapshot(), so that it is
\* held now exactly if it was held at that snapshot, is not in difference()
\* and its transition is None.
C35_HistoryIndependent ==
    subject = "mouse" =>
        \A b \in toggled :
            ((b \in held) <=> (b \in heldAtSnap)) =>
                /\ SnapshotTransition_transition(mouse.new.buttons,
                                                 mouse.old.buttons, b) = None
                /\ \A d \in ButtonDifference : \A s \in ElementState :
                      <<b, s>> \notin Elements(d)

\* since a snapshot() taken with Left held, Left was released and pressed
\* again and Right was pressed and released
C35_Witness ==
    /\ subject = "mouse"
    /\ heldAtSnap = {"Left"} /\ held = {"Left"}
    /\ toggled = {"Left", "Right"}
    /\ ButtonDifference = {<<>>}

\* C36: no event changes the mouse proximity: in every MouseSnapshot reached
\* by react and snapshot calls the proximity flag is false in new and in
\* old, so transition(MouseProximity) and the proximity difference are None.
C36_ProximityNeverChanges ==
    subject = "mouse" =>
        /\ mouse.new.proximity = FALSE
        /\ mouse.old.proximity = FALSE
        /\ State_transition(mouse.new.proximity, mouse.old.proximity) = None
        /\ MouseProximity_difference(mouse) = None

\* the pointer was moved and a button pressed, before and after a snapshot()
C36_Witness ==
    /\ subject = "mouse"
    /\ call.fn = "react"
    /\ mouse.old.position = <<0, 5>> /\ mouse.new.position = <<5, 5>>
    /\ mouse.old.buttons = {"Left"} /\ mouse.new.buttons = {"Left", "Right"}
    /\ ~mouse.new.proximity /\ ~mouse.old.proximity

\* C37: into_device_event(D) returns Some(self), unchanged, exactly for the
\* Input events whose device is D, and None for Input events of another
\* device and for every Window and Application event; into_window_event
\* returns None for Application events, for every window handle.
C37_DeviceNarrowing ==
    /\ (call.fn = "into_device_event" =>
           LET e == call.arg.event
           IN /\ call.out \in {None, Some(e)}
              /\ (call.out = Some(e))
                    <=> (e.category = "Input" /\ e.device = call.arg.handle))
    /\ ((call.fn = "into_window_event"
           /\ call.arg.event.category = "Application")
          => call.out = None)

\* an input event of device 1 that names window 2 was narrowed to device 2
C37_Witness ==
    /\ call.fn = "into_device_event"
    /\ call.arg = [event |-> Event_Input(1, Some(2), "Disconnected"),
                   handle |-> 2]
    /\ call.out = None

\* C38: decoding one raw mouse record never yields more than
\* EVENT_BUFFER_SIZE (8) events, whatever the movement, wheel and button
\* flags: at most one movement event, at most one wheel event and at most
\* one event for each of the six button flags, in this order; so the event
\* buffer of fixed capacity is never overrun.
C38_ParseWithinBuffer ==
    call.fn = "parse_raw_input" =>
        LET ev == call.out[2]
            Rank(e) == IF e.kind = "MouseMoved" THEN 1
                       ELSE IF e.kind = "MouseWheelRotated" THEN 2
                       ELSE 3
            Of(r) == {i \in DOMAIN ev : Rank(ev[i]) = r}
        IN /\ call.out[1] = "Ok"
           /\ Len(ev) <= EVENT_BUFFER_SIZE
           /\ Cardinality(Of(1)) <= 1
           /\ Cardinality(Of(2)) <= 1
           /\ Cardinality(Of(3)) <= 6
           /\ \A i, j \in Of(3) : ev[i] = ev[j] => i = j
           /\ \A i, j \in DOMAIN ev : i < j => Rank(ev[i]) <= Rank(ev[j])

\* a record with a movement, the wheel flag and all six button flags was
\* decoded into eight events
C38_Witness ==
    /\ call.fn = "parse_raw_input"
    /\ call.arg.usButtonFlags = 1087
    /\ Len(call.out[2]) = 8
    /\ call.out[2][1].kind = "MouseMoved"
    /\ call.out[2][2].kind = "MouseWheelRotated"
    /\ call.out[2][8] = MouseButtonChanged("Center", Released)

=============================================================================
